---- MODULE Spec2Model ----
(***************************************************************************)
(* Model of socionics_research/analysis/kl_divergence.py: the top-k        *)
(* normalizer, the aligner, the KL / entropy engine and the sequence       *)
(* aggregator, driven by callers that each issue one request; and of the   *)
(* pipeline around it: scrape_with_fallback and save_to_database           *)
(* (pipeline/playwright_scraper.py, pipeline/sociotype_scraper.py) and     *)
(* rewrite_summary (pipeline/scraper.py).                                  *)
(*                                                                         *)
(* Numbers.  A float64 probability is modelled as an exact rational n/d    *)
(* in lowest terms (n >= 0); d = 0 encodes the two values numpy produces   *)
(* on a division by zero: inf (n = 1) and nan (n = 0).  A log-probability  *)
(* is an integer k standing for -k * ln 2, so that exp() of it is the      *)
(* rational 2^-k, or 0 once float64 underflows.  A divergence or entropy   *)
(* (a sum of p * ln(p/q) terms) is a fixed-point integer counted in units  *)
(* of 1/FxOne nat, or inf, or nan.                                         *)
(***************************************************************************)
EXTENDS Integers, Sequences, FiniteSets, TLC

\* ------------------------------------------------------------ bounds
\* Longest top-k list a caller passes.
MaxK == 2
\* Longest run (number of positions) a caller passes.
MaxLen == 2

\* ------------------------------------------------------------ rationals
RECURSIVE GCD(_, _)
GCD(a, b) == IF b = 0 THEN a ELSE GCD(b, a % b)

Rat(n, d) ==
  IF d = 0 THEN [n |-> IF n = 0 THEN 0 ELSE 1, d |-> 0]
  ELSE LET g == GCD(n, d) IN [n |-> n \div g, d |-> d \div g]

Zero == Rat(0, 1)
One == Rat(1, 1)
Inf == Rat(1, 0)
NaN == Rat(0, 0)

IsNaN(x) == x.d = 0 /\ x.n = 0
IsInf(x) == x.d = 0 /\ x.n = 1
IsFinite(x) == x.d # 0

\* x + y on float64: nan absorbs, then inf.
FAdd(x, y) ==
  IF IsNaN(x) \/ IsNaN(y) THEN NaN
  ELSE IF IsInf(x) \/ IsInf(y) THEN Inf
  ELSE Rat(x.n * y.d + y.n * x.d, x.d * y.d)

\* x / y on numpy float64 (no exception: 0/0 = nan, x/0 = inf).
FDiv(x, y) ==
  IF IsNaN(x) \/ IsNaN(y) THEN NaN
  ELSE IF IsInf(x) THEN (IF IsInf(y) THEN NaN ELSE Inf)
  ELSE IF IsInf(y) THEN Zero
  ELSE Rat(x.n * y.d, x.d * y.n)

\* x > 0 on float64 (False for nan).
FPos(x) == x.n > 0

\* x < y for finite x, y.
FLess(x, y) == x.n * y.d < y.n * x.d

RECURSIVE FSum(_)
FSum(s) == IF s = <<>> THEN Zero ELSE FAdd(FSum(SubSeq(s, 1, Len(s) - 1)), s[Len(s)])

\* ------------------------------------------------------------ exp and ln
\* exp(-k ln 2) is 0 in float64 from k = 1075 on (2^-1074 is the least subnormal).
ExpUnderflowAt == 1075

\* np.exp of a log-probability -k ln 2.
Exp(k) == IF k >= ExpUnderflowAt THEN Zero ELSE Rat(1, 2 ^ k)

\* One nat in fixed-point units, and ln 2 in those units.
FxOne == 100000
Ln2 == 69315

\* Integer division rounding to the nearest, for d > 0.
RoundDiv(n, d) == IF n >= 0 THEN (n + d \div 2) \div d ELSE -(((-n) + d \div 2) \div d)

RECURSIVE Log2Floor(_)
Log2Floor(k) == IF k < 2 THEN 0 ELSE 1 + Log2Floor(k \div 2)

\* 2 * atanh(t) for t = T / FxOne in [0, 1/3]: 2 (t + t^3/3 + t^5/5 + ...), six terms.
Atanh2(T) ==
  LET T2 == RoundDiv(T * T, FxOne)
      T3 == RoundDiv(T * T2, FxOne)
      T5 == RoundDiv(T3 * T2, FxOne)
      T7 == RoundDiv(T5 * T2, FxOne)
      T9 == RoundDiv(T7 * T2, FxOne)
      T11 == RoundDiv(T9 * T2, FxOne)
  IN RoundDiv(2 * (3465 * T + 1155 * T3 + 693 * T5 + 495 * T7 + 385 * T9 + 315 * T11), 3465)

\* ln k for an integer k >= 1: k = 2^e * m, ln k = e ln 2 + 2 atanh((m - 1)/(m + 1));
\* m keeps the 15 leading bits of k.
LnInt(k) ==
  LET e == Log2Floor(k)
      s == IF e > 14 THEN 2 ^ (e - 14) ELSE 1
      m == k \div s
      p == (2 ^ e) \div s
  IN e * Ln2 + Atanh2(RoundDiv((m - p) * FxOne, m + p))

\* ln x for a finite rational x > 0.
Ln(x) == LnInt(x.n) - LnInt(x.d)

\* Fixed-point values: a finite count of units, inf, or nan.
Fx(v) == [k |-> "fin", v |-> v]
FxInf == [k |-> "inf", v |-> 0]
FxNaN == [k |-> "nan", v |-> 0]

FxAdd(x, y) ==
  IF x.k = "nan" \/ y.k = "nan" THEN FxNaN
  ELSE IF x.k = "inf" \/ y.k = "inf" THEN FxInf
  ELSE Fx(x.v + y.v)

RECURSIVE FxSum(_)
FxSum(s) == IF s = <<>> THEN Fx(0) ELSE FxAdd(FxSum(SubSeq(s, 1, Len(s) - 1)), s[Len(s)])

\* x < y on float64 (False when either is nan).
FxLess(x, y) ==
  IF x.k = "nan" \/ y.k = "nan" THEN FALSE
  ELSE IF x.k = "inf" THEN FALSE
  ELSE IF y.k = "inf" THEN TRUE
  ELSE x.v < y.v

\* x * ln(r) in fixed point, for finite rationals x >= 0 and r > 0.
MulLn(x, r) == Fx(RoundDiv(x.n * Ln(r), x.d))

\* ------------------------------------------------------------ inputs
\* Token identifiers, and the same in the code-point order sorted() gives.
Tokens == {"a", "cat", "the"}
TokenOrder == <<"a", "cat", "the">>

\* Log-probabilities -k ln 2: 0, -ln 2, and about -1000 (exp underflows).
LogProbs == {0, 1, 1443}

\* A candidate: {"token": t, "logprob": k}.
Candidates == [token : Tokens, logprob : LogProbs]

\* A top-k list: up to MaxK candidates, repeated tokens allowed.
TopKLists == UNION {[1..n -> Candidates] : n \in 0..MaxK}

\* The default floor of the source, 1e-10, does not fit a rational of 32-bit
\* integers next to probabilities of order 1: a positive floor far below
\* every positive probability of the inputs stands for it.
DefaultEpsilon == Rat(1, 1024)
Epsilons == {DefaultEpsilon, Rat(1, 64)}

\* ------------------------------------------------------------ dict
\* A Python dict: its items <<key, value>> in insertion order, one per key.
EmptyDict == <<>>

Keys(d) == [i \in 1..Len(d) |-> d[i][1]]

HasKey(d, k) == \E i \in 1..Len(d) : d[i][1] = k

\* A faulty variant of DictSet: a key that is already there keeps its value.
DictSetDefault(d, k, v) == IF HasKey(d, k) THEN d ELSE Append(d, <<k, v>>)

\* d[k] = v: the value of a key is replaced in place, a new key goes last.
DictSet(d, k, v) ==
  IF HasKey(d, k)
  THEN [i \in 1..Len(d) |-> IF d[i][1] = k THEN <<k, v>> ELSE d[i]]
  ELSE Append(d, <<k, v>>)

\* d[k] for a key of d.
DictAt(d, k) == d[CHOOSE i \in 1..Len(d) : d[i][1] = k][2]

\* A faulty variant of DictGet: a missing key reads as 0.
DictGetZero(d, k, default) == IF HasKey(d, k) THEN DictAt(d, k) ELSE Zero

\* d.get(k, default)
DictGet(d, k, default) == IF HasKey(d, k) THEN DictAt(d, k) ELSE default

\* [d.get(k, default) for k in keys]
RECURSIVE Lookup(_, _, _)
Lookup(d, keys, default) ==
  IF keys = <<>> THEN <<>>
  ELSE Append(Lookup(d, SubSeq(keys, 1, Len(keys) - 1), default), DictGet(d, keys[Len(keys)], default))

\* list(d.values())
RECURSIVE DictValues(_)
DictValues(d) ==
  IF d = <<>> THEN <<>> ELSE Append(DictValues(SubSeq(d, 1, Len(d) - 1)), d[Len(d)][2])

\* set(d.keys())
KeySet(d) == {d[i][1] : i \in 1..Len(d)}

\* {k: v / s for k, v in d.items()}
RECURSIVE DictDivide(_, _)
DictDivide(d, s) ==
  IF d = <<>> THEN <<>>
  ELSE Append(DictDivide(SubSeq(d, 1, Len(d) - 1), s), <<d[Len(d)][1], FDiv(d[Len(d)][2], s)>>)

\* {k: v for k in d.keys()}
RECURSIVE DictFill(_, _)
DictFill(d, v) ==
  IF d = <<>> THEN <<>>
  ELSE Append(DictFill(SubSeq(d, 1, Len(d) - 1), v), <<d[Len(d)][1], v>>)

\* ------------------------------------------------------------ results
\* What a call leaves: no exception and a value, or an exception and its message.
NoVal == [k |-> "none", v |-> 0]
Return(v) == [exc |-> "none", msg |-> <<>>, val |-> v]
Raise(e, m) == [exc |-> e, msg |-> m, val |-> NoVal]

\* ------------------------------------------------------------ normalizer
\* item.get("logprob", item.get("log_prob", 0))
LogProbOf(item) ==
  IF "logprob" \in DOMAIN item THEN item.logprob
  ELSE IF "log_prob" \in DOMAIN item THEN item.log_prob
  ELSE 0

\* item["token"] raises KeyError on an item that has no such key.
MissingToken(topk_probs) == \E i \in 1..Len(topk_probs) : "token" \notin DOMAIN topk_probs[i]

\* probs after the loop has taken the first n items.
RECURSIVE FillProbs(_, _)
FillProbs(topk_probs, n) ==
  IF n = 0 THEN EmptyDict
  ELSE DictSet(FillProbs(topk_probs, n - 1), topk_probs[n].token, Exp(LogProbOf(topk_probs[n])))

\* A faulty variant of normalize_distribution: the uniform fallback divides by the number
\* of candidates, not of distinct tokens.
normalize_uniform_over_items(topk_probs, epsilon) ==
  LET probs == FillProbs(topk_probs, Len(topk_probs))
      total == FSum(DictValues(probs))
      left == [topk_probs |-> topk_probs]
  IN IF FPos(total) THEN Return(DictDivide(probs, total)) @@ left
     ELSE Return(DictFill(probs, Rat(1, Len(topk_probs)))) @@ left

\* A faulty variant of normalize_distribution: the loop pops the candidates off the
\* caller's list.
normalize_draining(topk_probs, epsilon) ==
  LET probs == FillProbs(topk_probs, Len(topk_probs))
      total == FSum(DictValues(probs))
      left == [topk_probs |-> <<>>]
  IN IF FPos(total) THEN Return(DictDivide(probs, total)) @@ left
     ELSE Return(DictFill(probs, Rat(1, Len(probs)))) @@ left

\* The masses of the candidates one by one, repeated tokens included.
RECURSIVE ItemMasses(_)
ItemMasses(topk_probs) ==
  IF topk_probs = <<>> THEN <<>>
  ELSE Append(ItemMasses(SubSeq(topk_probs, 1, Len(topk_probs) - 1)),
              Exp(LogProbOf(topk_probs[Len(topk_probs)])))

\* A faulty variant of normalize_distribution: the total is taken over the candidates,
\* so a repeated token is counted once per occurrence.
normalize_total_over_items(topk_probs, epsilon) ==
  LET probs == FillProbs(topk_probs, Len(topk_probs))
      total == FSum(ItemMasses(topk_probs))
      left == [topk_probs |-> topk_probs]
  IN IF FPos(total) THEN Return(DictDivide(probs, total)) @@ left
     ELSE Return(DictFill(probs, Rat(1, Len(probs)))) @@ left

\* A faulty variant of normalize_distribution: a mass of 0 is raised to epsilon
\* before the total is taken.
normalize_floored(topk_probs, epsilon) ==
  LET filled == FillProbs(topk_probs, Len(topk_probs))
      probs == [i \in 1..Len(filled) |->
                  <<filled[i][1], IF filled[i][2] = Zero THEN epsilon ELSE filled[i][2]>>]
      total == FSum(DictValues(probs))
      left == [topk_probs |-> topk_probs]
  IN IF FPos(total) THEN Return(DictDivide(probs, total)) @@ left
     ELSE Return(DictFill(probs, Rat(1, Len(probs)))) @@ left

\* normalize_distribution: the value returned (or the exception raised) and, as
\* topk_probs, the caller's list as the call leaves it.
normalize_distribution(topk_probs, epsilon) ==
  LET probs == FillProbs(topk_probs, Len(topk_probs))
      total == FSum(DictValues(probs))
      left == [topk_probs |-> topk_probs]
  IN IF MissingToken(topk_probs) THEN Raise("KeyError", <<"token">>) @@ left
     ELSE IF FPos(total) THEN Return(DictDivide(probs, total)) @@ left
     ELSE IF \E i \in 1..Len(probs) : Len(probs) = 0
     THEN Raise("ZeroDivisionError", <<"float division by zero">>) @@ left
     ELSE Return(DictFill(probs, Rat(1, Len(probs)))) @@ left

\* ------------------------------------------------------------ aligner
\* sorted(S) for a set of tokens.
Sorted(S) == SelectSeq(TokenOrder, LAMBDA t : t \in S)

\* array / s, element by element.
RECURSIVE DivideAll(_, _)
DivideAll(array, s) ==
  IF array = <<>> THEN <<>>
  ELSE Append(DivideAll(SubSeq(array, 1, Len(array) - 1), s), FDiv(array[Len(array)], s))

\* array / array.sum()
Renormalize(array) == DivideAll(array, FSum(array))

\* A faulty variant of align_distributions: both arrays are divided by p_array's sum.
align_by_p_sum(p_dist, q_dist, epsilon) ==
  LET all_tokens == Sorted(KeySet(p_dist) \cup KeySet(q_dist))
      p_array == Lookup(p_dist, all_tokens, epsilon)
      q_array == Lookup(q_dist, all_tokens, epsilon)
  IN <<DivideAll(p_array, FSum(p_array)), DivideAll(q_array, FSum(p_array))>>

\* A faulty variant of align_distributions: the tokens in the order the two
\* mappings hold them, p_dist's first.
align_in_dict_order(p_dist, q_dist, epsilon) ==
  LET all_tokens == Keys(p_dist) \o SelectSeq(Keys(q_dist), LAMBDA t : ~HasKey(p_dist, t))
      p_array == Lookup(p_dist, all_tokens, epsilon)
      q_array == Lookup(q_dist, all_tokens, epsilon)
  IN <<Renormalize(p_array), Renormalize(q_array)>>

\* align_distributions: <<p_array, q_array>>.
align_distributions(p_dist, q_dist, epsilon) ==
  LET all_tokens == Sorted(KeySet(p_dist) \cup KeySet(q_dist))
      p_array == Lookup(p_dist, all_tokens, epsilon)
      q_array == Lookup(q_dist, all_tokens, epsilon)
  IN <<Renormalize(p_array), Renormalize(q_array)>>

\* ------------------------------------------------------------ engine
\* A faulty variant of rel_entr: the ratio upside down, x ln(y/x).
rel_entr_inverted(x, y) ==
  IF IsNaN(x) \/ IsNaN(y) THEN FxNaN
  ELSE IF FPos(x) /\ FPos(y) /\ IsFinite(x) /\ IsFinite(y) THEN MulLn(x, FDiv(y, x))
  ELSE IF x = Zero THEN Fx(0)
  ELSE FxInf

\* scipy.special.rel_entr(x, y): x ln(x/y) for x, y > 0; 0 for x = 0, y >= 0; else inf.
rel_entr(x, y) ==
  IF IsNaN(x) \/ IsNaN(y) THEN FxNaN
  ELSE IF FPos(x) /\ FPos(y) /\ IsFinite(x) /\ IsFinite(y) THEN MulLn(x, FDiv(x, y))
  ELSE IF x = Zero THEN Fx(0)
  ELSE FxInf

\* scipy.special.entr(x): -x ln x for x > 0; 0 for x = 0.
entr(x) ==
  IF IsNaN(x) THEN FxNaN
  ELSE IF FPos(x) /\ IsFinite(x) THEN Fx(-(MulLn(x, x).v))
  ELSE IF x = Zero THEN Fx(0)
  ELSE FxInf

\* scipy.stats.entropy(pk, qk): both normalized by their sums, then sum(rel_entr).
RECURSIVE RelEntrSum(_, _, _)
RelEntrSum(pn, qn, n) ==
  IF n = 0 THEN Fx(0) ELSE FxAdd(RelEntrSum(pn, qn, n - 1), rel_entr(pn[n], qn[n]))

entropy(pk, qk) ==
  LET pn == Renormalize(pk)
      qn == Renormalize(qk)
  IN RelEntrSum(pn, qn, Len(pn))

\* scipy.stats.entropy(pk): normalized by its sum, then sum(entr).
RECURSIVE EntrSum(_, _)
EntrSum(pn, n) == IF n = 0 THEN Fx(0) ELSE FxAdd(EntrSum(pn, n - 1), entr(pn[n]))

entropy1(pk) ==
  LET pn == Renormalize(pk)
  IN EntrSum(pn, Len(pn))

\* A faulty variant of compute_kl_divergence: entropy is called without q_array.
compute_kl_divergence_without_q(p_topk, q_topk, epsilon) ==
  LET np == normalize_distribution(p_topk, epsilon)
      nq == normalize_distribution(q_topk, epsilon)
      left == [p_topk |-> np.topk_probs, q_topk |-> nq.topk_probs]
      arrays == align_distributions(np.val, nq.val, epsilon)
  IN Return(entropy1(arrays[1])) @@ left

\* compute_kl_divergence: the result, and both lists as the call leaves them.
compute_kl_divergence(p_topk, q_topk, epsilon) ==
  LET np == normalize_distribution(p_topk, epsilon)
      nq == normalize_distribution(q_topk, epsilon)
      left == [p_topk |-> np.topk_probs,
               q_topk |-> IF np.exc = "none" THEN nq.topk_probs ELSE q_topk]
  IN IF np.exc # "none" THEN Raise(np.exc, np.msg) @@ left
     ELSE IF nq.exc # "none" THEN Raise(nq.exc, nq.msg) @@ left
     ELSE LET arrays == align_distributions(np.val, nq.val, epsilon)
          IN Return(entropy(arrays[1], arrays[2])) @@ left

\* compute_entropy_from_topk: the result, and the list as the call leaves it.
compute_entropy_from_topk(topk_probs) ==
  LET n == normalize_distribution(topk_probs, DefaultEpsilon)
  IN IF n.exc # "none" THEN Raise(n.exc, n.msg) @@ [topk_probs |-> n.topk_probs]
     ELSE Return(entropy1(DictValues(n.val))) @@ [topk_probs |-> n.topk_probs]

\* ------------------------------------------------------------ aggregator
\* A faulty variant of np_mean: the total, never divided.
np_mean_undivided(kl_array) ==
  IF Len(kl_array) = 0 THEN FxNaN ELSE FxSum(kl_array)

\* np.mean(kl_array): nan for an empty array.
np_mean(kl_array) ==
  LET total == FxSum(kl_array)
  IN IF Len(kl_array) = 0 THEN FxNaN
     ELSE IF total.k = "fin" THEN Fx(RoundDiv(total.v, Len(kl_array)))
     ELSE total

\* np.sum(kl_array), summed in position order.
np_sum(kl_array) == FxSum(kl_array)

\* The maximum of the first n values, as np.max finds it (nan wins).
RECURSIVE MaxOf(_, _)
MaxOf(kl_array, n) ==
  IF n = 1 THEN kl_array[1]
  ELSE LET m == MaxOf(kl_array, n - 1)
           x == kl_array[n]
       IN IF m.k = "nan" \/ x.k = "nan" THEN FxNaN
          ELSE IF FxLess(m, x) THEN x ELSE m

\* np.max(kl_array): raises on an empty array.
np_max(kl_array) ==
  IF Len(kl_array) = 0
  THEN Raise("ValueError", <<"zero-size array to reduction operation maximum which has no identity">>)
  ELSE Return(MaxOf(kl_array, Len(kl_array)))

\* A faulty variant of Aggregate: an unknown mode falls back to the mean.
AggregateDefaultsToMean(kl_array, aggregate) ==
  IF aggregate = "sum" THEN Return(np_sum(kl_array))
  ELSE IF aggregate = "max" THEN np_max(kl_array)
  ELSE Return(np_mean(kl_array))

\* The if / elif chain that ends compute_sequence_kl.
Aggregate(kl_array, aggregate) ==
  IF aggregate = "mean" THEN Return(np_mean(kl_array))
  ELSE IF aggregate = "sum" THEN Return(np_sum(kl_array))
  ELSE IF aggregate = "max" THEN np_max(kl_array)
  ELSE Raise("ValueError", <<"Unknown aggregate method: ", aggregate>>)

\* A faulty variant of LengthsMatch: only a longer run_a is rejected.
LengthsMatchAtMost(run_a_tokens, run_b_tokens) == Len(run_a_tokens) <= Len(run_b_tokens)

\* The test that opens compute_sequence_kl.
LengthsMatch(run_a_tokens, run_b_tokens) == Len(run_a_tokens) = Len(run_b_tokens)

LengthError(run_a_tokens, run_b_tokens) ==
  Raise("ValueError",
        <<"Token sequence lengths don't match: ", Len(run_a_tokens), " vs ", Len(run_b_tokens)>>)

\* ------------------------------------------------------------ requests
Callers == {"c1", "c2"}

\* The top-k lists runs are made of, and the second operands every list meets.
C(t, k) == [token |-> t, logprob |-> k]
RunPool == {<<>>, <<C("the", 0), C("a", 1)>>, <<C("a", 0), C("cat", 1443)>>}
PoolLists == RunPool \cup {<<C("the", 0)>>,
                           <<C("a", 1443), C("cat", 1443)>>,
                           <<C("cat", 1), C("cat", 0)>>,
                           <<C("a", 1), C("cat", 0), C("a", 0)>>,
                           <<[token |-> "the", log_prob |-> 1], [token |-> "a"]>>}

\* Every list a caller passes.
Lists == TopKLists \cup PoolLists

Reverse(s) == [i \in 1..Len(s) |-> s[Len(s) + 1 - i]]

Runs == UNION {[1..n -> RunPool] : n \in 0..MaxLen}

\* "median" stands for every string that is not a mode.
Modes == {"mean", "sum", "max", "median"}

Request(op, p, q, a, b, aggregate, epsilon) ==
  [op |-> op, p |-> p, q |-> q, a |-> a, b |-> b, aggregate |-> aggregate, epsilon |-> epsilon]

NoRequest == Request("none", <<>>, <<>>, <<>>, <<>>, "mean", DefaultEpsilon)

\* ------------------------------------------------------------ text
\* A Python str is the sequence of its characters.
\* Longest text passed to rewrite_summary.
MaxText == 6

Chars == {"a", " ", "."}
Whitespace == {" ", "\n", "\t"}

Min(a, b) == IF a < b THEN a ELSE b

\* s[:n] for n >= 0.
Prefix(s, n) == SubSeq(s, 1, Min(n, Len(s)))

\* s.rfind(sub): the 0-based start of the last occurrence, or -1.
RFind(s, sub) ==
  LET at == {i \in 0..(Len(s) - Len(sub)) : SubSeq(s, i + 1, i + Len(sub)) = sub}
  IN IF at = {} THEN -1 ELSE CHOOSE i \in at : \A j \in at : j <= i

\* sub in s
Contains(s, sub) == RFind(s, sub) >= 0

\* max() of a list of integers that is not empty.
MaxInt(xs) == CHOOSE x \in {xs[i] : i \in 1..Len(xs)} : \A i \in 1..Len(xs) : xs[i] <= x

\* s.strip(): whitespace off both ends.
Strip(s) ==
  LET inked == {i \in 1..Len(s) : s[i] \notin Whitespace}
  IN IF inked = {} THEN <<>>
     ELSE SubSeq(s, CHOOSE i \in inked : \A j \in inked : i <= j,
                    CHOOSE i \in inked : \A j \in inked : j <= i)

\* s.rsplit(" ", 1)[0]: what precedes the last space, or all of s.
RSplitHead(s) ==
  LET at == RFind(s, <<" ">>)
  IN IF at = -1 THEN s ELSE SubSeq(s, 1, at)

Ellipsis == <<".", ".", ".">>

\* A faulty variant of rewrite_summary: the sentence end is looked for in the
\* whole text, not in its first max_length characters.
rewrite_summary_untruncated(raw_text, max_length) ==
  IF raw_text = <<>> \/ Len(raw_text) <= max_length THEN raw_text
  ELSE LET summary == raw_text
           sentence_endings == <<RFind(summary, <<".", " ">>),
                                 RFind(summary, <<"!", " ">>),
                                 RFind(summary, <<"?", " ">>)>>
           last_sentence_end == MaxInt(sentence_endings)
       IN IF last_sentence_end > max_length \div 2
          THEN Strip(Prefix(summary, last_sentence_end + 1))
          ELSE Strip(RSplitHead(summary)) \o Ellipsis

\* rewrite_summary, for max_length >= 0.
rewrite_summary(raw_text, max_length) ==
  IF raw_text = <<>> \/ Len(raw_text) <= max_length THEN raw_text
  ELSE LET summary == Prefix(raw_text, max_length)
           sentence_endings == <<RFind(summary, <<".", " ">>),
                                 RFind(summary, <<"!", " ">>),
                                 RFind(summary, <<"?", " ">>)>>
           last_sentence_end == MaxInt(sentence_endings)
       IN IF last_sentence_end > max_length \div 2
          THEN Strip(Prefix(summary, last_sentence_end + 1))
          ELSE Strip(RSplitHead(summary)) \o Ellipsis

\* Texts: every text over Chars up to MaxText characters, and a few with the
\* other sentence ends and the other whitespace.
PoolTexts == {<<"a", "a", "a", "!", " ", "a", "a">>,
              <<"a", "?", " ", "a", "!", " ", "a">>,
              <<"\n", "a", "a", "?", " ", "a", "\n">>,
              <<" ", "\t", " ", "a">>,
              <<"a", "\n", "a", "a">>}
Texts == UNION {[1..n -> Chars] : n \in 0..MaxText} \cup PoolTexts
MaxLengths == 0..MaxText

NoSummary == [pc |-> "idle", raw_text |-> <<>>, max_length |-> 0, result |-> <<>>]

\* ------------------------------------------------------------ celebrities
\* Most celebrities a scraped page or a caller's list holds.
MaxCelebs == 2

\* None where a number may stand, kept apart from every number.
None == [n |-> -1, d |-> 0]

\* str.lower(), character by character.
LowerChar(ch) == IF ch = "A" THEN "a" ELSE IF ch = "B" THEN "b" ELSE ch

RECURSIVE Lower(_)
Lower(s) == IF s = <<>> THEN <<>> ELSE Append(Lower(SubSeq(s, 1, Len(s) - 1)), LowerChar(s[Len(s)]))

\* Celebrity records as the scrapers build them: name and sociotype always,
\* url and confidence when the page gave them (read with .get by the code).
CelebPool == {[name |-> <<"A", "l">>, sociotype |-> "ILE", url |-> "u1", confidence |-> Rat(85, 100)],
              [name |-> <<"B", "o">>, sociotype |-> "LII", url |-> "", confidence |-> None],
              [name |-> <<"a", "l", "a">>, sociotype |-> "SEI"]}

CelebLists == UNION {[1..n -> CelebPool] : n \in 0..MaxCelebs}

\* person_name: None or "" (both falsy, written <<>>), or a name to look for.
PersonNames == {<<>>, <<"a", "l">>, <<"B">>, <<"z">>}

\* limit: None or 0 (both falsy, written 0), or a count.
Limits == {0, 1}

\* celebrities[:limit] under "if limit".
Truncate(celebrities, limit) ==
  IF limit # 0 THEN SubSeq(celebrities, 1, Min(limit, Len(celebrities))) ELSE celebrities

\* [c for c in celebrities if person_name.lower() in c["name"].lower()]
NameMatches(person_name, c) == Contains(Lower(c.name), Lower(person_name))
FilterByName(celebrities, person_name) ==
  SelectSeq(celebrities, LAMBDA c : NameMatches(person_name, c))

\* ------------------------------------------------------------ database
\* The three tables save_to_database writes, their sequences, and every
\* connection opened so far ("open" or "closed").
EmptyDatabase ==
  [sources |-> <<>>, personalities |-> <<>>, sociotype_labels |-> <<>>,
   sources_seq |-> 1, personalities_seq |-> 1, sociotype_labels_seq |-> 1,
   connections |-> <<>>]

\* duckdb.connect(): one more connection, open.
Connect(d) == [d EXCEPT !.connections = Append(@, "open")]

\* conn.close()
Close(d, conn) == [d EXCEPT !.connections[conn] = "closed"]

\* A REAL column keeps a float32: 24 significant bits of a positive value
\* (given as a rational below 128 whose denominator is at most 100).
RECURSIVE RealScale(_, _)
RealScale(x, e) == IF x.n * e >= 8388608 * x.d THEN e ELSE RealScale(x, 2 * e)

ToReal(x) ==
  IF x = None \/ x.n = 0 THEN x
  ELSE LET e == RealScale(x, 1) IN Rat(RoundDiv(x.n * e, x.d), e)

\* A faulty variant of ConfidenceOf: the scraped confidence is ignored.
ConfidenceAlwaysDefault(celeb) == Rat(7, 10)

\* celeb.get("confidence", 0.7)
DefaultConfidence == Rat(7, 10)
ConfidenceOf(celeb) == IF "confidence" \in DOMAIN celeb THEN celeb.confidence ELSE DefaultConfidence

\* celeb.get("url", self.base_url)
BaseUrl == "https://sociotype.xyz/e"
UrlOf(celeb) == IF "url" \in DOMAIN celeb THEN celeb.url ELSE BaseUrl

\* label_source of each scraper's rows.
LabelSource(scraper) == IF scraper = "playwright" THEN "sociotype.xyz (playwright)" ELSE "sociotype.xyz"

\* INSERT INTO sources ... RETURNING source_id
InsertSource(d, scraper, celeb) ==
  [d EXCEPT !.sources = Append(@, [source_id |-> d.sources_seq, url |-> UrlOf(celeb),
                                   domain |-> "sociotype.xyz"]),
            !.sources_seq = @ + 1]

\* INSERT INTO personalities ... RETURNING person_id
InsertPerson(d, celeb, source_id) ==
  [d EXCEPT !.personalities = Append(@, [person_id |-> d.personalities_seq, name |-> celeb.name,
                                         canonical_name |-> Lower(celeb.name),
                                         source_refs |-> <<source_id>>]),
            !.personalities_seq = @ + 1]

\* INSERT INTO sociotype_labels ...
InsertLabel(d, scraper, celeb, person_id) ==
  [d EXCEPT !.sociotype_labels = Append(@, [label_id |-> d.sociotype_labels_seq, person_id |-> person_id,
                                            label_source |-> LabelSource(scraper),
                                            socionics_type |-> celeb.sociotype,
                                            confidence |-> ToReal(ConfidenceOf(celeb))]),
            !.sociotype_labels_seq = @ + 1]

\* ------------------------------------------------------------ frames
\* What a pipeline call gave: still pending, a count, or an exception.
Pending == [exc |-> "pending", val |-> 0]
Returned(n) == [exc |-> "none", val |-> n]
Raised(e) == [exc |-> e, val |-> 0]

\* save_to_database: the scraper it is a method of, its arguments, its locals
\* (i: the celebrity the loop is at), and, as counted, the celebrity and the
\* person_id behind each increment of saved_count.
NoSave ==
  [pc |-> "idle", scraper |-> "none", conn |-> 0, celebrities |-> <<>>,
   i |-> 1, saved_count |-> 0, counted |-> <<>>]

SaveCall(scraper, conn, celebrities) ==
  [pc |-> "loop", scraper |-> scraper, conn |-> conn, celebrities |-> celebrities,
   i |-> 1, saved_count |-> 0, counted |-> <<>>]

\* A PlaywrightSociotypeScraper: built once __init__ has returned; its fields
\* headless, playwright and browser ("None", or the object in the state it is in);
\* active: between __enter__ and __exit__; last: the last method called on it,
\* whether the context was active then, its argument, what it gave, and whether
\* it called a method of self.browser.
NoCall == [method |-> "none", active |-> FALSE, arg |-> <<>>, exc |-> "pending", val |-> <<>>,
           touched |-> FALSE]
NoScraper == [built |-> FALSE, headless |-> TRUE, playwright |-> "None", browser |-> "None",
              active |-> FALSE, last |-> NoCall]
CallRecord(method, active, arg, exc, val, touched) ==
  [method |-> method, active |-> active, arg |-> arg, exc |-> exc, val |-> val,
   touched |-> touched]

\* scrape_with_fallback: its arguments and locals; result: what it gave;
\* http_found: the celebrities the HTTP attempt left; calls: the scraper
\* methods called so far, in order.
NoFallback ==
  [pc |-> "idle", person_name |-> <<>>, limit |-> 0, http_scraper |-> FALSE,
   celebrities |-> <<>>, used_playwright |-> FALSE, conn |-> 0, result |-> Pending,
   http_found |-> <<>>, calls |-> <<>>]

FallbackCall(person_name, limit) ==
  [NoFallback EXCEPT !.pc = "start", !.person_name = person_name, !.limit = limit]

\* ------------------------------------------------------------ state
\* args[c]: the objects caller c owns and passes; pc[c]: where its call stands;
\* kl_values[c]: the local list of compute_sequence_kl; out[c]: what the call gave.
VARIABLES args, pc, kl_values, out

\* The pipeline around the core.  fb: the frame of scrape_with_fallback;
\* sv: the frame of save_to_database; db: the database and its connections;
\* rs: a call of rewrite_summary; pw: a PlaywrightSociotypeScraper object.
VARIABLES fb, sv, db, rs, pw
pipeline_vars == <<fb, sv, db, rs, pw>>

vars == <<args, pc, kl_values, out, fb, sv, db, rs, pw>>

NoOut == [exc |-> "pending", msg |-> <<>>, val |-> NoVal]
Outcome(r) == [exc |-> r.exc, msg |-> r.msg, val |-> r.val]

\* No pipeline call is in flight and the database is as init_database leaves it.
PipelineIdle ==
  fb = NoFallback /\ sv = NoSave /\ db = EmptyDatabase /\ rs = NoSummary /\ pw = NoScraper

\* Caller c1 holds one request; c2 holds none.
Holds(r) == args = [c \in Callers |-> IF c = "c1" THEN r ELSE NoRequest]

NormalizeRequest ==
  \E p \in Lists, e \in Epsilons : Holds(Request("normalize", p, <<>>, <<>>, <<>>, "mean", e))

\* Every list against the pool, both ways round, against itself and against
\* itself reversed; the pool against itself under the other floor.
KLRequest ==
  \/ \E p \in Lists, q \in PoolLists :
        \/ Holds(Request("kl", p, q, <<>>, <<>>, "mean", DefaultEpsilon))
        \/ Holds(Request("kl", q, p, <<>>, <<>>, "mean", DefaultEpsilon))
  \/ \E p \in Lists :
        \/ Holds(Request("kl", p, p, <<>>, <<>>, "mean", DefaultEpsilon))
        \/ Holds(Request("kl", p, Reverse(p), <<>>, <<>>, "mean", DefaultEpsilon))
  \/ \E p \in PoolLists, q \in PoolLists, e \in Epsilons :
        Holds(Request("kl", p, q, <<>>, <<>>, "mean", e))

EntropyRequest ==
  \E p \in Lists : Holds(Request("entropy", p, <<>>, <<>>, <<>>, "mean", DefaultEpsilon))

\* Mappings as normalize_distribution returns them: every list against the
\* lists of the runs, both ways round; the pool against itself under each floor.
Normalized(topk_probs) == normalize_distribution(topk_probs, DefaultEpsilon).val

AlignRequest ==
  \/ \E p \in Lists, q \in RunPool :
        \/ Holds(Request("align", Normalized(p), Normalized(q), <<>>, <<>>, "mean", DefaultEpsilon))
        \/ Holds(Request("align", Normalized(q), Normalized(p), <<>>, <<>>, "mean", DefaultEpsilon))
  \/ \E p \in PoolLists, q \in PoolLists, e \in Epsilons :
        Holds(Request("align", Normalized(p), Normalized(q), <<>>, <<>>, "mean", e))

SequenceRequest ==
  \E a \in Runs, b \in Runs, m \in Modes : Holds(Request("seq", <<>>, <<>>, a, b, m, DefaultEpsilon))

Init ==
  /\ NormalizeRequest \/ AlignRequest \/ KLRequest \/ EntropyRequest \/ SequenceRequest
  /\ pc = [c \in Callers |-> "ready"]
  /\ kl_values = [c \in Callers |-> <<>>]
  /\ out = [c \in Callers |-> NoOut]
  /\ PipelineIdle

CallNormalize(c) ==
  /\ pc[c] = "ready" /\ args[c].op = "normalize"
  /\ LET r == normalize_distribution(args[c].p, args[c].epsilon)
     IN /\ out' = [out EXCEPT ![c] = Outcome(r)]
        /\ args' = [args EXCEPT ![c].p = r.topk_probs]
  /\ pc' = [pc EXCEPT ![c] = "done"]
  /\ UNCHANGED kl_values
  /\ UNCHANGED pipeline_vars

\* align_distributions on two mappings: <<p_array, q_array>>; the mappings are
\* only read.
CallAlign(c) ==
  /\ pc[c] = "ready" /\ args[c].op = "align"
  /\ out' = [out EXCEPT ![c] = Return(align_distributions(args[c].p, args[c].q, args[c].epsilon))]
  /\ pc' = [pc EXCEPT ![c] = "done"]
  /\ UNCHANGED <<args, kl_values>>
  /\ UNCHANGED pipeline_vars

CallKL(c) ==
  /\ pc[c] = "ready" /\ args[c].op = "kl"
  /\ LET r == compute_kl_divergence(args[c].p, args[c].q, args[c].epsilon)
     IN /\ out' = [out EXCEPT ![c] = Outcome(r)]
        /\ args' = [args EXCEPT ![c].p = r.p_topk, ![c].q = r.q_topk]
  /\ pc' = [pc EXCEPT ![c] = "done"]
  /\ UNCHANGED kl_values
  /\ UNCHANGED pipeline_vars

CallEntropy(c) ==
  /\ pc[c] = "ready" /\ args[c].op = "entropy"
  /\ LET r == compute_entropy_from_topk(args[c].p)
     IN /\ out' = [out EXCEPT ![c] = Outcome(r)]
        /\ args' = [args EXCEPT ![c].p = r.topk_probs]
  /\ pc' = [pc EXCEPT ![c] = "done"]
  /\ UNCHANGED kl_values
  /\ UNCHANGED pipeline_vars

\* A faulty variant of SeqEnter: the mode is validated on entry, before the lengths.
SeqEnterModeFirst(c) ==
  /\ pc[c] = "ready" /\ args[c].op = "seq"
  /\ IF args[c].aggregate \notin {"mean", "sum", "max"}
     THEN /\ pc' = [pc EXCEPT ![c] = "done"]
          /\ out' = [out EXCEPT ![c] = Aggregate(<<>>, args[c].aggregate)]
          /\ UNCHANGED kl_values
     ELSE IF LengthsMatch(args[c].a, args[c].b)
     THEN /\ pc' = [pc EXCEPT ![c] = "loop"]
          /\ kl_values' = [kl_values EXCEPT ![c] = <<>>]
          /\ UNCHANGED out
     ELSE /\ pc' = [pc EXCEPT ![c] = "done"]
          /\ out' = [out EXCEPT ![c] = LengthError(args[c].a, args[c].b)]
          /\ UNCHANGED kl_values
  /\ UNCHANGED args
  /\ UNCHANGED pipeline_vars

\* compute_sequence_kl, the length test: raise, or enter the loop.
SeqEnter(c) ==
  /\ pc[c] = "ready" /\ args[c].op = "seq"
  /\ IF LengthsMatch(args[c].a, args[c].b)
     THEN /\ pc' = [pc EXCEPT ![c] = "loop"]
          /\ kl_values' = [kl_values EXCEPT ![c] = <<>>]
          /\ UNCHANGED out
     ELSE /\ pc' = [pc EXCEPT ![c] = "done"]
          /\ out' = [out EXCEPT ![c] = LengthError(args[c].a, args[c].b)]
          /\ UNCHANGED kl_values
  /\ UNCHANGED args
  /\ UNCHANGED pipeline_vars

\* A faulty variant of SeqStep: kl_values is one list every call appends to (a
\* module-level list, or a mutable default argument), not a local of the call.
SeqStepSharedList(c) ==
  /\ pc[c] = "loop"
  /\ Len(kl_values[c]) < Len(args[c].a) /\ Len(kl_values[c]) < Len(args[c].b)
  /\ LET i == Len(kl_values[c]) + 1
         r == compute_kl_divergence(args[c].a[i], args[c].b[i], DefaultEpsilon)
     IN /\ args' = [args EXCEPT ![c].a[i] = r.p_topk, ![c].b[i] = r.q_topk]
        /\ kl_values' = [d \in Callers |-> Append(kl_values[d], r.val)]
        /\ UNCHANGED <<pc, out>>
  /\ UNCHANGED pipeline_vars

\* A faulty variant of SeqStep: the operands are swapped, run_b as P and run_a as Q.
SeqStepSwapped(c) ==
  /\ pc[c] = "loop"
  /\ Len(kl_values[c]) < Len(args[c].a) /\ Len(kl_values[c]) < Len(args[c].b)
  /\ LET i == Len(kl_values[c]) + 1
         r == compute_kl_divergence(args[c].b[i], args[c].a[i], DefaultEpsilon)
     IN /\ kl_values' = [kl_values EXCEPT ![c] = Append(@, r.val)]
        /\ UNCHANGED <<args, pc, out>>
  /\ UNCHANGED pipeline_vars

\* A faulty variant of SeqStep: a position whose computation raises is caught
\* and counted as nan.
SeqStepSwallowing(c) ==
  /\ pc[c] = "loop"
  /\ Len(kl_values[c]) < Len(args[c].a) /\ Len(kl_values[c]) < Len(args[c].b)
  /\ LET i == Len(kl_values[c]) + 1
         r == compute_kl_divergence(args[c].a[i], args[c].b[i], DefaultEpsilon)
     IN /\ args' = [args EXCEPT ![c].a[i] = r.p_topk, ![c].b[i] = r.q_topk]
        /\ kl_values' = [kl_values EXCEPT ![c] = Append(@, IF r.exc = "none" THEN r.val ELSE FxNaN)]
        /\ UNCHANGED <<pc, out>>
  /\ UNCHANGED pipeline_vars

\* One turn of the loop over zip(run_a_tokens, run_b_tokens).
SeqStep(c) ==
  /\ pc[c] = "loop"
  /\ Len(kl_values[c]) < Len(args[c].a) /\ Len(kl_values[c]) < Len(args[c].b)
  /\ LET i == Len(kl_values[c]) + 1
         r == compute_kl_divergence(args[c].a[i], args[c].b[i], DefaultEpsilon)
     IN /\ args' = [args EXCEPT ![c].a[i] = r.p_topk, ![c].b[i] = r.q_topk]
        /\ IF r.exc = "none"
           THEN /\ kl_values' = [kl_values EXCEPT ![c] = Append(@, r.val)]
                /\ UNCHANGED <<pc, out>>
           ELSE /\ pc' = [pc EXCEPT ![c] = "done"]
                /\ out' = [out EXCEPT ![c] = Outcome(r)]
                /\ UNCHANGED kl_values
  /\ UNCHANGED pipeline_vars

\* The loop is over: aggregate, or reject the mode.
SeqAggregate(c) ==
  /\ pc[c] = "loop"
  /\ ~(Len(kl_values[c]) < Len(args[c].a) /\ Len(kl_values[c]) < Len(args[c].b))
  /\ out' = [out EXCEPT ![c] = Aggregate(kl_values[c], args[c].aggregate)]
  /\ pc' = [pc EXCEPT ![c] = "done"]
  /\ UNCHANGED <<args, kl_values>>
  /\ UNCHANGED pipeline_vars

Next ==
  \E c \in Callers :
    \/ CallNormalize(c)
    \/ CallAlign(c)
    \/ CallKL(c)
    \/ CallEntropy(c)
    \/ SeqEnter(c)
    \/ SeqStep(c)
    \/ SeqAggregate(c)

Spec == Init /\ [][Next]_vars

\* ------------------------------------------------------------ pipeline
\* No call of the core is in flight.
CoreIdle ==
  /\ args = [c \in Callers |-> NoRequest]
  /\ pc = [c \in Callers |-> "ready"]
  /\ kl_values = [c \in Callers |-> <<>>]
  /\ out = [c \in Callers |-> NoOut]

core_vars == <<args, pc, kl_values, out>>

\* Where an INSERT of one celebrity may fail.
SaveFaults == {"none", "source", "person", "label"}

\* One turn of the loop of save_to_database: the three INSERTs and the commit
\* of one celebrity.  Each INSERT is committed as it is executed (the
\* connection is in autocommit mode); an exception ends the turn, is printed,
\* and the loop goes on.
SaveOne ==
  /\ sv.pc = "loop" /\ sv.i <= Len(sv.celebrities)
  /\ \E fault \in SaveFaults :
       LET celeb == sv.celebrities[sv.i]
           source_id == db.sources_seq
           person_id == db.personalities_seq
           d1 == InsertSource(db, sv.scraper, celeb)
           d2 == InsertPerson(d1, celeb, source_id)
           d3 == InsertLabel(d2, sv.scraper, celeb, person_id)
       IN /\ db' = IF fault = "source" THEN db
                   ELSE IF fault = "person" THEN d1
                   ELSE IF fault = "label" THEN d2
                   ELSE d3
          /\ sv' = IF fault = "none"
                   THEN [sv EXCEPT !.i = @ + 1, !.saved_count = @ + 1,
                                   !.counted = Append(@, <<sv.i, person_id>>)]
                   ELSE [sv EXCEPT !.i = @ + 1]
  /\ UNCHANGED <<fb, rs>>
  /\ UNCHANGED core_vars
  /\ UNCHANGED pw

\* The loop is over: return saved_count.
SaveReturn ==
  /\ sv.pc = "loop" /\ sv.i > Len(sv.celebrities)
  /\ sv' = [sv EXCEPT !.pc = "done"]
  /\ UNCHANGED <<fb, db, rs>>
  /\ UNCHANGED core_vars
  /\ UNCHANGED pw

Call(scraper, method) == <<scraper, method>>

\* scrape_with_fallback, the HTTP attempt: build the HTTP scraper (its
\* libraries may be missing), scrape the page (a failed fetch is an empty
\* page), then filter by person_name or cut at limit.
FbHttp ==
  /\ fb.pc = "start"
  /\ \E available \in BOOLEAN, page \in CelebLists :
       LET celebrities ==
             IF ~available THEN <<>>
             ELSE IF fb.person_name # <<>> THEN FilterByName(page, fb.person_name)
             ELSE Truncate(page, fb.limit)
           calls == IF available
                    THEN <<Call("http", "__init__"), Call("http", "scrape_celebrities")>>
                    ELSE <<Call("http", "__init__")>>
       IN fb' = [fb EXCEPT !.pc = "tried_http", !.http_scraper = available,
                           !.celebrities = celebrities, !.http_found = celebrities,
                           !.calls = @ \o calls]
  /\ UNCHANGED <<sv, db, rs>>
  /\ UNCHANGED core_vars
  /\ UNCHANGED pw

\* What may go wrong around a Playwright context: the import, the browser's
\* start in __enter__, its end in __exit__.
PlaywrightFaults == {"none", "import", "enter", "exit"}

\* pw_scraper.search_person(person_name) on a page: the first match, if any.
SearchPerson(page, person_name) ==
  LET hits == FilterByName(page, person_name)
  IN IF hits = <<>> THEN <<>> ELSE <<hits[1]>>

\* The fallback: nothing came over HTTP, so scrape inside a Playwright
\* context; ImportError or any other exception there returns 0.
FbPlaywright ==
  /\ fb.pc = "tried_http" /\ fb.celebrities = <<>>
  /\ \E fault \in PlaywrightFaults, page \in CelebLists :
       LET method == IF fb.person_name # <<>> THEN "search_person" ELSE "scrape_celebrities"
           celebrities == IF fb.person_name # <<>> THEN SearchPerson(page, fb.person_name)
                          ELSE Truncate(page, fb.limit)
       IN fb' = IF fault = "import"
                THEN [fb EXCEPT !.pc = "done", !.result = Returned(0),
                                !.calls = Append(@, Call("playwright", "__init__"))]
                ELSE IF fault = "enter"
                THEN [fb EXCEPT !.pc = "done", !.result = Returned(0),
                                !.calls = @ \o <<Call("playwright", "__init__"),
                                                 Call("playwright", "__enter__")>>]
                ELSE IF fault = "exit"
                THEN [fb EXCEPT !.pc = "done", !.result = Returned(0),
                                !.celebrities = celebrities, !.used_playwright = TRUE,
                                !.calls = @ \o <<Call("playwright", "__init__"),
                                                 Call("playwright", "__enter__"),
                                                 Call("playwright", method),
                                                 Call("playwright", "__exit__")>>]
                ELSE [fb EXCEPT !.pc = "tried_both",
                                !.celebrities = celebrities, !.used_playwright = TRUE,
                                !.calls = @ \o <<Call("playwright", "__init__"),
                                                 Call("playwright", "__enter__"),
                                                 Call("playwright", method),
                                                 Call("playwright", "__exit__")>>]
  /\ UNCHANGED <<sv, db, rs>>
  /\ UNCHANGED core_vars
  /\ UNCHANGED pw

\* Nothing found by either method: return 0.  Otherwise open the connection
\* (get_connection may raise, and the exception leaves the function).
FbConnect ==
  /\ \/ fb.pc = "tried_http" /\ fb.celebrities # <<>>
     \/ fb.pc = "tried_both"
  /\ IF fb.celebrities = <<>>
     THEN /\ fb' = [fb EXCEPT !.pc = "done", !.result = Returned(0)]
          /\ UNCHANGED db
     ELSE \E opens \in BOOLEAN :
            IF opens
            THEN /\ db' = Connect(db)
                 /\ fb' = [fb EXCEPT !.pc = "connected", !.conn = Len(db.connections) + 1]
            ELSE /\ fb' = [fb EXCEPT !.pc = "done", !.result = Raised("IOException")]
                 /\ UNCHANGED db
  /\ UNCHANGED <<sv, rs>>
  /\ UNCHANGED core_vars
  /\ UNCHANGED pw

\* A faulty variant of SaverOf: the HTTP scraper saves whatever was found.
SaverAlwaysHttp(used_playwright) == "http"

\* The scraper whose save_to_database is called.
SaverOf(used_playwright) == IF used_playwright THEN "playwright" ELSE "http"

\* Call save_to_database of the scraper that found the celebrities; on the
\* fallback path, inside a new Playwright context, which may fail to start.
FbBeginSave ==
  /\ fb.pc = "connected"
  /\ \E fault \in {"none", "enter"} :
       LET scraper == SaverOf(fb.used_playwright)
       IN IF scraper = "playwright" /\ fault # "none"
          THEN /\ fb' = [fb EXCEPT !.pc = "done",
                                   !.result = Raised("Error"),
                                   !.calls = @ \o <<Call("playwright", "__init__"),
                                                    Call("playwright", "__enter__")>>]
               /\ UNCHANGED sv
          ELSE /\ fault = "none"
               /\ fb' = [fb EXCEPT !.pc = "saving",
                                   !.calls = @ \o (IF scraper = "playwright"
                                                   THEN <<Call("playwright", "__init__"),
                                                          Call("playwright", "__enter__")>>
                                                   ELSE <<>>)
                                               \o <<Call(scraper, "save_to_database")>>]
               /\ sv' = SaveCall(scraper, fb.conn, fb.celebrities)
  /\ UNCHANGED <<db, rs>>
  /\ UNCHANGED core_vars
  /\ UNCHANGED pw

\* save_to_database has returned: leave the Playwright context (its __exit__
\* may raise), close the connection, return saved_count.
FbFinish ==
  /\ fb.pc = "saving" /\ sv.pc = "done"
  /\ \E fault \in {"none", "exit"} :
       IF sv.scraper = "playwright" /\ fault = "exit"
       THEN /\ fb' = [fb EXCEPT !.pc = "done", !.result = Raised("Error"),
                                !.calls = Append(@, Call("playwright", "__exit__"))]
            /\ UNCHANGED db
       ELSE /\ fault = "none"
            /\ fb' = [fb EXCEPT !.pc = "done", !.result = Returned(sv.saved_count),
                                !.calls = @ \o (IF sv.scraper = "playwright"
                                                THEN <<Call("playwright", "__exit__")>> ELSE <<>>)]
            /\ db' = Close(db, fb.conn)
  /\ UNCHANGED <<sv, rs>>
  /\ UNCHANGED core_vars
  /\ UNCHANGED pw

\* A pipeline run: scrape_with_fallback on a database file, or save_to_database
\* of either scraper called with a list of celebrities and an open connection.
PipelineInit ==
  /\ CoreIdle
  /\ rs = NoSummary
  /\ pw = NoScraper
  /\ \/ /\ \E person_name \in PersonNames, limit \in Limits : fb = FallbackCall(person_name, limit)
        /\ sv = NoSave
        /\ db = EmptyDatabase
     \/ /\ fb = NoFallback
        /\ \E scraper \in {"http", "playwright"}, celebrities \in CelebLists :
             sv = SaveCall(scraper, 1, celebrities)
        /\ db = Connect(EmptyDatabase)

PipelineNext ==
  \/ FbHttp
  \/ FbPlaywright
  \/ FbConnect
  \/ FbBeginSave
  \/ SaveOne
  \/ SaveReturn
  \/ FbFinish

PipelineSpec == PipelineInit /\ [][PipelineNext]_vars

\* ------------------------------------------------------------ summaries
SummaryInit ==
  /\ CoreIdle
  /\ fb = NoFallback /\ sv = NoSave /\ db = EmptyDatabase /\ pw = NoScraper
  /\ \E raw_text \in Texts, max_length \in MaxLengths :
       rs = [pc |-> "ready", raw_text |-> raw_text, max_length |-> max_length, result |-> <<>>]

CallRewriteSummary ==
  /\ rs.pc = "ready"
  /\ rs' = [rs EXCEPT !.pc = "done", !.result = rewrite_summary(rs.raw_text, rs.max_length)]
  /\ UNCHANGED <<fb, sv, db>>
  /\ UNCHANGED core_vars
  /\ UNCHANGED pw

SummaryNext == CallRewriteSummary

SummarySpec == SummaryInit /\ [][SummaryNext]_vars

\* ------------------------------------------------------------ scraper object
\* PlaywrightSociotypeScraper(headless=...): ImportError when playwright is
\* not installed.
PwInit ==
  /\ ~pw.built /\ pw.last.method = "none"
  /\ \E installed \in BOOLEAN, headless \in BOOLEAN :
       pw' = IF installed
             THEN [pw EXCEPT !.built = TRUE, !.headless = headless,
                             !.last = CallRecord("__init__", FALSE, <<>>, "none", <<>>, FALSE)]
             ELSE [pw EXCEPT !.last = CallRecord("__init__", FALSE, <<>>, "ImportError", <<>>, FALSE)]
  /\ UNCHANGED <<fb, sv, db, rs>>
  /\ UNCHANGED core_vars

\* __enter__: start playwright, then launch the browser; either may raise, and
\* the with statement is then not entered.
PwEnter ==
  /\ pw.built /\ ~pw.active
  /\ \E fault \in {"none", "start", "launch"} :
       pw' = IF fault = "start"
             THEN [pw EXCEPT !.last = CallRecord("__enter__", FALSE, <<>>, "Error", <<>>, FALSE)]
             ELSE IF fault = "launch"
             THEN [pw EXCEPT !.playwright = "started",
                             !.last = CallRecord("__enter__", FALSE, <<>>, "Error", <<>>, FALSE)]
             ELSE [pw EXCEPT !.playwright = "started", !.browser = "open", !.active = TRUE,
                             !.last = CallRecord("__enter__", FALSE, <<>>, "none", <<>>, FALSE)]
  /\ UNCHANGED <<fb, sv, db, rs>>
  /\ UNCHANGED core_vars

\* __exit__: close the browser and stop playwright if they are set (a close
\* that raises leaves the browser open or closed, and playwright running);
\* neither field is reset.
PwExit ==
  /\ pw.active
  /\ \E fault \in {"none", "close", "stop"}, left \in {"open", "closed"} :
       /\ fault # "close" => left = "closed"
       /\ pw' = [pw EXCEPT !.active = FALSE,
                           !.browser = left,
                           !.playwright = IF fault = "none" THEN "stopped" ELSE @,
                           !.last = CallRecord("__exit__", TRUE, <<>>,
                                               IF fault = "none" THEN "none" ELSE "Error",
                                               <<>>, TRUE)]
  /\ UNCHANGED <<fb, sv, db, rs>>
  /\ UNCHANGED core_vars

\* scrape_celebrities(limit): RuntimeError when self.browser is falsy;
\* otherwise the page is opened with self.browser.new_page(), and any
\* exception (a closed browser raises one) is printed and [] returned.
PwScrape ==
  /\ pw.built
  /\ \E limit \in Limits, page \in CelebLists, ok \in BOOLEAN :
       pw' = [pw EXCEPT !.last =
                IF pw.browser = "None"
                THEN CallRecord("scrape_celebrities", pw.active, limit, "RuntimeError", <<>>, FALSE)
                ELSE IF pw.browser = "open" /\ ok
                THEN CallRecord("scrape_celebrities", pw.active, limit, "none",
                                Truncate(page, limit), TRUE)
                ELSE CallRecord("scrape_celebrities", pw.active, limit, "none", <<>>, TRUE)]
  /\ UNCHANGED <<fb, sv, db, rs>>
  /\ UNCHANGED core_vars

\* search_person(person_name): RuntimeError when self.browser is falsy;
\* otherwise the first match on the page, or None (written <<>>) when there is
\* none or an exception was caught.
PwSearch ==
  /\ pw.built
  /\ \E person_name \in PersonNames \ {<<>>}, page \in CelebLists, ok \in BOOLEAN :
       pw' = [pw EXCEPT !.last =
                IF pw.browser = "None"
                THEN CallRecord("search_person", pw.active, person_name, "RuntimeError", <<>>, FALSE)
                ELSE IF pw.browser = "open" /\ ok
                THEN CallRecord("search_person", pw.active, person_name, "none",
                                SearchPerson(page, person_name), TRUE)
                ELSE CallRecord("search_person", pw.active, person_name, "none", <<>>, TRUE)]
  /\ UNCHANGED <<fb, sv, db, rs>>
  /\ UNCHANGED core_vars

ScraperInit == CoreIdle /\ PipelineIdle

ScraperNext ==
  \/ PwInit
  \/ PwEnter
  \/ PwExit
  \/ PwScrape
  \/ PwSearch

ScraperSpec == ScraperInit /\ [][ScraperNext]_vars

\* ------------------------------------------------------------ concurrent callers
\* Several callers at once, each with a call of its own to compute_kl_divergence
\* or compute_sequence_kl; their steps interleave in every order.
\* The runs they pass: one pool list repeated over 1..MaxLen positions.
ConcLists == RunPool \ {<<>>}
ConcRuns == UNION {[1..n -> {x}] : n \in 1..MaxLen, x \in ConcLists}
ConcModes == {"mean", "max"}

ConcRequests ==
  {Request("kl", p, q, <<>>, <<>>, "mean", DefaultEpsilon) : p \in ConcLists, q \in ConcLists}
  \cup {Request("seq", <<>>, <<>>, ab[1], ab[2], m, DefaultEpsilon) :
           ab \in ConcRuns \X ConcRuns, m \in ConcModes}

ConcInit ==
  /\ args \in [Callers -> ConcRequests]
  /\ pc = [c \in Callers |-> "ready"]
  /\ kl_values = [c \in Callers |-> <<>>]
  /\ out = [c \in Callers |-> NoOut]
  /\ PipelineIdle

ConcNext ==
  \E c \in Callers :
    \/ CallKL(c)
    \/ SeqEnter(c)
    \/ SeqStep(c)
    \/ SeqAggregate(c)

ConcSpec == ConcInit /\ [][ConcNext]_vars

\* ------------------------------------------------------------ malformed lists
\* Lists with a candidate that has no "token" key, alone and after a good one.
BadLists == {<<[logprob |-> 0]>>, <<C("a", 0), [logprob |-> 1]>>}
FaultPool == {<<C("the", 0), C("a", 1)>>, <<C("a", 0), C("cat", 1443)>>} \cup BadLists
FaultRuns == UNION {[1..n -> FaultPool] : n \in 0..MaxLen}

FaultInit ==
  /\ \/ \E p \in FaultPool : Holds(Request("normalize", p, <<>>, <<>>, <<>>, "mean", DefaultEpsilon))
     \/ \E p \in FaultPool, q \in FaultPool :
           Holds(Request("kl", p, q, <<>>, <<>>, "mean", DefaultEpsilon))
     \/ \E a \in FaultRuns, b \in FaultRuns, m \in Modes :
           Holds(Request("seq", <<>>, <<>>, a, b, m, DefaultEpsilon))
  /\ pc = [c \in Callers |-> "ready"]
  /\ kl_values = [c \in Callers |-> <<>>]
  /\ out = [c \in Callers |-> NoOut]
  /\ PipelineIdle

FaultNext ==
  \E c \in Callers :
    \/ CallNormalize(c)
    \/ CallKL(c)
    \/ SeqEnter(c)
    \/ SeqStep(c)
    \/ SeqAggregate(c)

FaultSpec == FaultInit /\ [][FaultNext]_vars

\* ------------------------------------------------------------ properties
Done(c, op) == pc[c] = "done" /\ args[c].op = op
KnownModes == {"mean", "sum", "max"}

\* C1: whenever the two runs differ in length, whatever the mode, the call to
\* compute_sequence_kl ends in the ValueError whose message gives both lengths:
\* it never enters the loop and returns no value.
C1_LengthMismatchRaises ==
  \A c \in Callers :
    (args[c].op = "seq" /\ Len(args[c].a) # Len(args[c].b)) =>
      /\ pc[c] \in {"ready", "done"}
      /\ kl_values[c] = <<>>
      /\ pc[c] = "done" =>
           /\ out[c].exc = "ValueError"
           /\ out[c].msg = <<"Token sequence lengths don't match: ",
                             Len(args[c].a), " vs ", Len(args[c].b)>>
           /\ out[c].val = NoVal

\* A call with runs of 1 and 2 positions and an unknown mode has ended.
C1_Witness ==
  \E c \in Callers :
    /\ Done(c, "seq") /\ Len(args[c].a) = 1 /\ Len(args[c].b) = 2
    /\ args[c].aggregate = "median" /\ out[c].exc = "ValueError"

\* C2: with runs of equal length and a mode other than mean, sum or max, the
\* call ends in the ValueError that names the mode, and returns no value.
C2_UnknownModeRaises ==
  \A c \in Callers :
    (Done(c, "seq") /\ Len(args[c].a) = Len(args[c].b) /\ args[c].aggregate \notin KnownModes) =>
      /\ out[c].exc = "ValueError"
      /\ out[c].msg = <<"Unknown aggregate method: ", args[c].aggregate>>
      /\ out[c].val = NoVal

\* A call with two runs of 2 positions and the mode "median" has ended.
C2_Witness ==
  \E c \in Callers :
    /\ Done(c, "seq") /\ Len(args[c].a) = 2 /\ Len(args[c].b) = 2
    /\ args[c].aggregate = "median" /\ Len(kl_values[c]) = 2

\* The per-position values of a call: KL(run_a[i] || run_b[i]) for each i in order.
PositionValues(c) ==
  [i \in 1..Len(args[c].a) |->
     compute_kl_divergence(args[c].a[i], args[c].b[i], DefaultEpsilon).val]

RECURSIVE UnitsTotal(_, _)
UnitsTotal(vals, n) == IF n = 0 THEN 0 ELSE UnitsTotal(vals, n - 1) + vals[n].v

Abs(x) == IF x < 0 THEN -x ELSE x

NonNegative(x) == x.k = "inf" \/ (x.k = "fin" /\ x.v >= 0)

\* C5: non-negativity.  Every compute_kl_divergence call returns, and returns a
\* value that is not negative (not below -1e-9: at the resolution of a unit,
\* not below 0) and not nan; so is every per-position value of a run.
C5_NonNegative ==
  \A c \in Callers :
    /\ Done(c, "kl") => (out[c].exc = "none" /\ NonNegative(out[c].val))
    /\ \A i \in 1..Len(kl_values[c]) : NonNegative(kl_values[c][i])

\* A finite, strictly positive KL between lists over different token sets.
C5_Witness ==
  \E c \in Callers :
    /\ Done(c, "kl") /\ out[c].exc = "none" /\ out[c].val.k = "fin" /\ out[c].val.v > 0
    /\ {args[c].p[i].token : i \in 1..Len(args[c].p)} # {args[c].q[i].token : i \in 1..Len(args[c].q)}
    /\ args[c].p # <<>> /\ args[c].q # <<>>

\* C6 as claimed: normalize_distribution of an empty list raises, and what it
\* raises is not an arithmetic fault.
C6_EmptyNormalizeRaises ==
  \A c \in Callers :
    (Done(c, "normalize") /\ args[c].p = <<>>) =>
      out[c].exc \notin {"none", "ZeroDivisionError"}

\* C7 as claimed: compute_kl_divergence of two empty lists raises instead of
\* returning a number or nan.
C7_BothEmptyKLRaises ==
  \A c \in Callers :
    (Done(c, "kl") /\ args[c].p = <<>> /\ args[c].q = <<>>) => out[c].exc # "none"

\* C8 as claimed: compute_entropy_from_topk of an empty list raises instead of
\* returning a value.
C8_EmptyEntropyRaises ==
  \A c \in Callers :
    (Done(c, "entropy") /\ args[c].p = <<>>) => out[c].exc # "none"

TokensOf(topk) == {topk[i].token : i \in 1..Len(topk)}

\* C9: uniform fallback.  For a list that is not empty and whose masses are
\* all 0, normalize_distribution returns, without raising, one entry per
\* distinct token, each 1/count for count distinct tokens, summing to 1.
C9_UniformFallback ==
  \A c \in Callers :
    (Done(c, "normalize") /\ args[c].p # <<>>
       /\ \A i \in 1..Len(args[c].p) : Exp(LogProbOf(args[c].p[i])) = Zero) =>
      LET count == Cardinality(TokensOf(args[c].p))
      IN /\ out[c].exc = "none"
         /\ KeySet(out[c].val) = TokensOf(args[c].p)
         /\ Len(out[c].val) = count
         /\ \A i \in 1..Len(out[c].val) : out[c].val[i][2] = Rat(1, count)
         /\ FSum(DictValues(out[c].val)) = One

\* The fallback has been taken for a list of two distinct tokens.
C9_Witness ==
  \E c \in Callers :
    /\ Done(c, "normalize") /\ Len(args[c].p) = 2
    /\ Cardinality(TokensOf(args[c].p)) = 2
    /\ \A i \in 1..2 : Exp(LogProbOf(args[c].p[i])) = Zero
    /\ out[c].exc = "none" /\ \A i \in 1..2 : out[c].val[i][2] = Rat(1, 2)

\* C10: no side effects.  No step of any call, returning or raising, changes
\* an object a caller owns (its top-k lists, their candidates, its runs), and
\* a step writes nothing but the frame of the one call that takes it.
C10_NoSideEffects ==
  [][/\ args' = args
     /\ \E c \in Callers :
          \A d \in Callers \ {c} :
            pc'[d] = pc[d] /\ out'[d] = out[d] /\ kl_values'[d] = kl_values[d]]_vars

\* A sequence call over two positions of non-empty lists has returned.
C10_Witness ==
  \E c \in Callers :
    /\ Done(c, "seq") /\ out[c].exc = "none" /\ Len(kl_values[c]) = 2
    /\ \A i \in 1..2 : args[c].a[i] # <<>> /\ args[c].b[i] # <<>>

\* What a request gives when its call runs alone, from start to end.
RunAlone(r) ==
  IF r.op = "kl" THEN Outcome(compute_kl_divergence(r.p, r.q, r.epsilon))
  ELSE IF ~LengthsMatch(r.a, r.b) THEN LengthError(r.a, r.b)
  ELSE Aggregate([i \in 1..Len(r.a) |-> compute_kl_divergence(r.a[i], r.b[i], DefaultEpsilon).val],
                 r.aggregate)

\* C11: concurrent callers.  Whatever the interleaving of the steps of the
\* callers' compute_kl_divergence / compute_sequence_kl calls, a call that has
\* ended gave what the same call gives when it runs alone, and a call inside
\* its loop holds the values of its own positions, in order, and no other.
C11_SameAsAlone ==
  \A c \in Callers :
    /\ pc[c] = "done" => out[c] = RunAlone(args[c])
    /\ pc[c] = "loop" =>
         /\ Len(kl_values[c]) <= Len(args[c].a)
         /\ \A i \in 1..Len(kl_values[c]) :
              kl_values[c][i] = compute_kl_divergence(args[c].a[i], args[c].b[i], DefaultEpsilon).val

\* Two different sequence calls in flight at once: c1 has returned the mean
\* over its two positions while c2 is between its first and second position.
C11_Witness ==
  /\ Done("c1", "seq") /\ Len(kl_values["c1"]) = 2 /\ out["c1"].exc = "none"
  /\ out["c1"].val.k = "fin" /\ out["c1"].val.v > 0
  /\ pc["c2"] = "loop" /\ Len(kl_values["c2"]) = 1 /\ Len(args["c2"].a) = 2
  /\ args["c2"].a # args["c1"].a
  /\ kl_values["c2"][1] # kl_values["c1"][1]

\* The scraper whose scraping left the celebrities of a fallback run.
Producer == IF fb.http_found # <<>> THEN "http" ELSE "playwright"
Called(scraper, method) == \E i \in 1..Len(fb.calls) : fb.calls[i] = Call(scraper, method)
UsesPlaywright == \E i \in 1..Len(fb.calls) : fb.calls[i][1] = "playwright"

\* C12: in scrape_with_fallback the HTTP scraper is tried before anything of
\* the Playwright scraper is touched; once the HTTP attempt is behind, the
\* Playwright scraper is used if and only if that attempt left no celebrity;
\* save_to_database is called on the scraper that found the celebrities,
\* with those celebrities, and never on the HTTP scraper after a fallback;
\* and the count returned is the saved count of that call (0 when no save ran).
C12_FallbackOrder ==
  fb.pc # "idle" =>
    /\ UsesPlaywright =>
         /\ fb.calls[1] = Call("http", "__init__")
         /\ \A i, j \in 1..Len(fb.calls) :
              (fb.calls[i][1] = "playwright" /\ fb.calls[j][1] = "http") => j < i
    /\ fb.pc \notin {"start", "tried_http"} => (UsesPlaywright <=> fb.http_found = <<>>)
    /\ \A x \in {"http", "playwright"} :
         Called(x, "save_to_database") =>
           /\ x = Producer /\ sv.scraper = x
           /\ sv.celebrities = fb.celebrities /\ fb.celebrities # <<>>
           /\ x = "http" => fb.celebrities = fb.http_found
    /\ (fb.pc = "done" /\ fb.result.exc = "none") =>
         IF sv.pc = "done"
         THEN fb.result.val = sv.saved_count /\ sv.scraper = Producer
         ELSE fb.result.val = 0 /\ sv = NoSave

\* The fallback path to its end: the HTTP scraper was there and found nothing,
\* the Playwright scraper found two celebrities, saved both and 2 is returned.
C12_Witness ==
  /\ fb.pc = "done" /\ fb.http_scraper /\ fb.http_found = <<>>
  /\ Called("http", "scrape_celebrities") /\ Called("playwright", "save_to_database")
  /\ Len(fb.celebrities) = 2 /\ fb.result = Returned(2)

\* Two confidences agree: both None, or numbers less than 0.01 apart (what
\* the REAL column keeps of a float).
SameConfidence(x, y) ==
  IF x = None \/ y = None THEN x = y
  ELSE Abs(x.n * y.d - y.n * x.d) <= (x.d * y.d) \div 100

RowsOf(table, person_id) == {i \in 1..Len(table) : table[i].person_id = person_id}

\* C13: save_to_database, of either scraper.  saved_count is the number of
\* celebrities counted; each of them has a person_id of its own under which
\* there is exactly one personalities row, carrying its name, and exactly one
\* sociotype_labels row, carrying its sociotype and its confidence (0.7 when
\* it has none) and the scraper's label_source.  When the call returns, every
\* celebrity of the list has been tried, whatever failed before it, and each
\* one whose three INSERTs went through is counted.
C13_SavedCount ==
  sv.pc # "idle" =>
    /\ sv.saved_count = Len(sv.counted)
    /\ \A k \in 1..Len(sv.counted) :
         LET celeb == sv.celebrities[sv.counted[k][1]]
             person_id == sv.counted[k][2]
             persons == RowsOf(db.personalities, person_id)
             labels == RowsOf(db.sociotype_labels, person_id)
         IN /\ Cardinality(persons) = 1 /\ Cardinality(labels) = 1
            /\ \A i \in persons : db.personalities[i].name = celeb.name
            /\ \A i \in labels :
                 /\ db.sociotype_labels[i].socionics_type = celeb.sociotype
                 /\ SameConfidence(db.sociotype_labels[i].confidence,
                                   IF "confidence" \in DOMAIN celeb THEN celeb.confidence
                                   ELSE DefaultConfidence)
                 /\ db.sociotype_labels[i].label_source = LabelSource(sv.scraper)
            /\ \A j \in 1..Len(sv.counted) : j # k => sv.counted[j][2] # person_id
    /\ sv.pc = "done" =>
         /\ sv.i = Len(sv.celebrities) + 1
         /\ sv.saved_count = Len(db.sociotype_labels)
         /\ sv.saved_count <= Len(sv.celebrities)

\* The Playwright scraper's save_to_database has returned 1 for two
\* celebrities: the first failed at its label, the second, of confidence
\* 0.85, was saved.
C13_Witness ==
  /\ sv.pc = "done" /\ sv.scraper = "playwright" /\ Len(sv.celebrities) = 2
  /\ sv.saved_count = 1 /\ sv.counted[1][1] = 2
  /\ Len(db.personalities) = 2 /\ Len(db.sociotype_labels) = 1
  /\ sv.celebrities[2].sociotype = "ILE"
  /\ db.sociotype_labels[1].confidence # Rat(85, 100)

\* C14: rewrite_summary, for max_length >= 0.  A text that is empty or no
\* longer than max_length comes back unchanged.  For a longer text the result
\* is a prefix of the text of at most max_length characters, stripped of the
\* whitespace at its ends, with or without "..." after it; so it is at most
\* max_length + 3 characters long.
C14_SummaryBound ==
  rs.pc = "done" =>
    IF rs.raw_text = <<>> \/ Len(rs.raw_text) <= rs.max_length
    THEN rs.result = rs.raw_text
    ELSE /\ Len(rs.result) <= rs.max_length + 3
         /\ \E j \in 0..rs.max_length :
              LET head == Strip(SubSeq(rs.raw_text, 1, j))
              IN rs.result = head \/ rs.result = head \o <<".", ".", ".">>

\* A text of 6 characters cut at max_length 5 has come back as its first
\* sentence, 4 characters long.
C14_Witness ==
  /\ rs.pc = "done" /\ Len(rs.raw_text) = 6 /\ rs.max_length = 5
  /\ rs.result = <<"a", "a", "a", ".">>

KL(p, q) == compute_kl_divergence(p, q, DefaultEpsilon).val

\* C15: position pairing.  In a call of compute_sequence_kl on runs of equal
\* length, the i-th value gathered is KL(run_a[i] || run_b[i]), run_a's list
\* as P and run_b's as Q, for every i reached; and once the loop is over there
\* is one value per position.
C15_PositionPairing ==
  \A c \in Callers :
    (args[c].op = "seq" /\ Len(args[c].a) = Len(args[c].b)) =>
      /\ Len(kl_values[c]) <= Len(args[c].a)
      /\ \A i \in 1..Len(kl_values[c]) : kl_values[c][i] = KL(args[c].a[i], args[c].b[i])
      /\ pc[c] = "done" => Len(kl_values[c]) = Len(args[c].a)

\* Two positions whose values tell the pairings apart: swapping the operands
\* or crossing the indices would give other values.
C15_Witness ==
  \E c \in Callers :
    /\ Done(c, "seq") /\ Len(args[c].a) = 2 /\ Len(kl_values[c]) = 2
    /\ kl_values[c][1] # KL(args[c].b[1], args[c].a[1])
    /\ kl_values[c][1] # KL(args[c].a[1], args[c].b[2])
    /\ kl_values[c][1] # KL(args[c].a[2], args[c].b[1])
    /\ kl_values[c][2] # KL(args[c].b[2], args[c].a[2])
    /\ kl_values[c][1] # kl_values[c][2]

\* The mass of token t in a list: exp of the log-probability of its last occurrence.
MassOf(topk, t) ==
  LET last == CHOOSE i \in 1..Len(topk) :
                topk[i].token = t /\ \A j \in 1..Len(topk) : topk[j].token = t => j <= i
  IN Exp(LogProbOf(topk[last]))

\* The masses of the distinct tokens of a list, and their total.
DistinctMasses(topk) ==
  LET ts == Sorted(TokensOf(topk)) IN [i \in 1..Len(ts) |-> MassOf(topk, ts[i])]
TotalMass(topk) == FSum(DistinctMasses(topk))

\* C16: for a list whose total mass (over its distinct tokens) is strictly
\* positive, normalize_distribution returns one entry per distinct token, the
\* token's mass divided by that total, and the values sum to 1.
C16_NormalizedByTotal ==
  \A c \in Callers :
    (Done(c, "normalize") /\ FPos(TotalMass(args[c].p))) =>
      /\ out[c].exc = "none"
      /\ KeySet(out[c].val) = TokensOf(args[c].p)
      /\ Len(out[c].val) = Cardinality(TokensOf(args[c].p))
      /\ \A i \in 1..Len(out[c].val) :
           out[c].val[i][2] = FDiv(MassOf(args[c].p, out[c].val[i][1]), TotalMass(args[c].p))
      /\ FSum(DictValues(out[c].val)) = One

\* A list of two tokens with masses 1 and 1/2 has been normalized to 2/3 and 1/3.
C16_Witness ==
  \E c \in Callers :
    /\ Done(c, "normalize") /\ Len(args[c].p) = 2 /\ Len(out[c].val) = 2
    /\ out[c].val[1][2] = Rat(2, 3) /\ out[c].val[2][2] = Rat(1, 3)

\* C17 as claimed: every entry of a mapping returned by normalize_distribution
\* for a list that is not empty is strictly positive.
C17_AllEntriesPositive ==
  \A c \in Callers :
    (Done(c, "normalize") /\ args[c].p # <<>> /\ out[c].exc = "none") =>
      \A i \in 1..Len(out[c].val) : FPos(out[c].val[i][2])

AllPositive(array) == \A i \in 1..Len(array) : FPos(array[i]) /\ IsFinite(array[i])

\* C18 as claimed: for mappings that normalize_distribution returned, at
\* least one of them not empty, every component of both aligned vectors is
\* strictly positive, and the KL of two lists, at least one of them not
\* empty, is finite.
C18_AlignedPositive ==
  \A c \in Callers :
    /\ (Done(c, "align") /\ (args[c].p # <<>> \/ args[c].q # <<>>)) =>
         AllPositive(out[c].val[1]) /\ AllPositive(out[c].val[2])
    /\ (Done(c, "kl") /\ (args[c].p # <<>> \/ args[c].q # <<>>)) =>
         out[c].exc = "none" /\ out[c].val.k = "fin"

\* The tokens of two mappings in lexicographic order.
UnionTokens(p_dist, q_dist) ==
  SelectSeq(TokenOrder, LAMBDA t : HasKey(p_dist, t) \/ HasKey(q_dist, t))

\* What a vector holds for each token of the union before it is renormalized.
FloorFilled(dist, tokens, epsilon) ==
  [i \in 1..Len(tokens) |-> IF HasKey(dist, tokens[i]) THEN DictAt(dist, tokens[i]) ELSE epsilon]

\* C19 as claimed: the two vectors align_distributions returns are as long as
\* the union of the mappings' keys has tokens, their i-th components belong to
\* the i-th token of that union in lexicographic order, and each sums to 1.
C19_AlignedShape ==
  \A c \in Callers :
    Done(c, "align") =>
      LET tokens == UnionTokens(args[c].p, args[c].q)
          p_array == out[c].val[1]
          q_array == out[c].val[2]
      IN /\ Len(p_array) = Cardinality(KeySet(args[c].p) \cup KeySet(args[c].q))
         /\ Len(q_array) = Len(p_array)
         /\ \A i \in 1..Len(p_array) :
              /\ HasKey(args[c].p, tokens[i]) =>
                   p_array[i] = FDiv(DictAt(args[c].p, tokens[i]),
                                     FSum(FloorFilled(args[c].p, tokens, args[c].epsilon)))
              /\ HasKey(args[c].q, tokens[i]) =>
                   q_array[i] = FDiv(DictAt(args[c].q, tokens[i]),
                                     FSum(FloorFilled(args[c].q, tokens, args[c].epsilon)))
         /\ FSum(p_array) = One
         /\ FSum(q_array) = One

\* C20: in align_distributions each vector holds, for the i-th token of the
\* union, the mapping's own probability when the token is one of its keys and
\* epsilon when it is not, divided by the sum of these values over the vector
\* itself; the other mapping's values play no part.
C20_FloorThenRenormalize ==
  \A c \in Callers :
    Done(c, "align") =>
      LET tokens == UnionTokens(args[c].p, args[c].q)
          p_filled == FloorFilled(args[c].p, tokens, args[c].epsilon)
          q_filled == FloorFilled(args[c].q, tokens, args[c].epsilon)
      IN /\ out[c].exc = "none"
         /\ Len(out[c].val[1]) = Len(tokens) /\ Len(out[c].val[2]) = Len(tokens)
         /\ \A i \in 1..Len(tokens) :
              /\ out[c].val[1][i] = FDiv(p_filled[i], FSum(p_filled))
              /\ out[c].val[2][i] = FDiv(q_filled[i], FSum(q_filled))

\* Two mappings aligned over three tokens, each lacking a token the other
\* has, with different sums before renormalization and under the larger floor.
C20_Witness ==
  \E c \in Callers :
    /\ Done(c, "align") /\ Len(out[c].val[1]) = 3
    /\ \E t \in Tokens : HasKey(args[c].p, t) /\ ~HasKey(args[c].q, t)
    /\ \E t \in Tokens : HasKey(args[c].q, t) /\ ~HasKey(args[c].p, t)
    /\ args[c].epsilon = Rat(1, 64)
    /\ LET tokens == UnionTokens(args[c].p, args[c].q)
       IN FSum(FloorFilled(args[c].p, tokens, args[c].epsilon))
            # FSum(FloorFilled(args[c].q, tokens, args[c].epsilon))

\* The positions of token t in a list.
Occurrences(topk, t) == {i \in 1..Len(topk) : topk[i].token = t}
Repeats(topk) == \E t \in TokensOf(topk) : Cardinality(Occurrences(topk, t)) > 1

\* The candidates of a list that are the last of their token, in list order.
KeepLast(topk) ==
  LET kept == {i \in 1..Len(topk) : \A j \in Occurrences(topk, topk[i].token) : j <= i}
      F[n \in 0..Len(topk)] ==
        IF n = 0 THEN <<>> ELSE IF n \in kept THEN Append(F[n - 1], topk[n]) ELSE F[n - 1]
  IN F[Len(topk)]

\* C21: for a list in which a token occurs more than once, normalize_distribution
\* returns one entry per distinct token; the entry of a token is exp of the
\* log-probability of its last occurrence over the total of these last masses
\* (1/count when that total is 0), so the mapping is, key by key, the one
\* returned for the list without the earlier occurrences.
C21_LastOccurrenceWins ==
  \A c \in Callers :
    (Done(c, "normalize") /\ Repeats(args[c].p)) =>
      LET last == ItemMasses(KeepLast(args[c].p))
          total == FSum(last)
          alone == normalize_distribution(KeepLast(args[c].p), args[c].epsilon).val
      IN /\ out[c].exc = "none"
         /\ Len(out[c].val) = Cardinality(TokensOf(args[c].p))
         /\ \A i \in 1..Len(out[c].val) :
              LET t == out[c].val[i][1]
                  at == CHOOSE j \in Occurrences(args[c].p, t) :
                          \A k \in Occurrences(args[c].p, t) : k <= j
                  mass == Exp(LogProbOf(args[c].p[at]))
              IN /\ out[c].val[i][2] = IF FPos(total) THEN FDiv(mass, total)
                                        ELSE Rat(1, Len(last))
                 /\ \A j \in 1..Len(out[c].val) : out[c].val[j][1] = t => j = i
         /\ {out[c].val[i] : i \in 1..Len(out[c].val)} = {alone[i] : i \in 1..Len(alone)}

\* A list of three candidates, its first token repeated with a greater mass
\* at the end, normalized to two equal entries (the first occurrence would
\* have given 1/3 and 2/3).
C21_Witness ==
  \E c \in Callers :
    /\ Done(c, "normalize") /\ Len(args[c].p) = 3
    /\ args[c].p[1].token = args[c].p[3].token
    /\ Exp(LogProbOf(args[c].p[1])) # Exp(LogProbOf(args[c].p[3]))
    /\ Len(out[c].val) = 2
    /\ out[c].val[1][2] = Rat(1, 2) /\ out[c].val[2][2] = Rat(1, 2)

\* Every reordering of a list.
Perms(s) ==
  {[i \in 1..Len(s) |-> s[f[i]]] :
     f \in {g \in [1..Len(s) -> 1..Len(s)] : \A i, j \in 1..Len(s) : g[i] = g[j] => i = j}}

\* The arrays compute_kl_divergence hands to entropy.
AlignedArrays(p, q, epsilon) ==
  align_distributions(normalize_distribution(p, epsilon).val,
                      normalize_distribution(q, epsilon).val, epsilon)

PositionOutcome(c, i) ==
  Outcome(compute_kl_divergence(args[c].a[i], args[c].b[i], DefaultEpsilon))
Fails(c, i) == PositionOutcome(c, i).exc # "none"

\* C24: no error is caught on the way out.  A call to normalize_distribution
\* on a list whose item raises ends in that error; a call to
\* compute_kl_divergence ends in the error of the first list that raises; a
\* call to compute_sequence_kl with runs of equal length in which some position
\* raises ends in the error of the first such position, whatever the mode, with
\* only the positions before it computed and no value returned.
C24_ErrorsPropagate ==
  \A c \in Callers :
    /\ (Done(c, "normalize") /\ MissingToken(args[c].p)) =>
          out[c] = Raise("KeyError", <<"token">>)
    /\ (Done(c, "kl") /\ (MissingToken(args[c].p) \/ MissingToken(args[c].q))) =>
          out[c] = Raise("KeyError", <<"token">>)
    /\ (Done(c, "seq") /\ Len(args[c].a) = Len(args[c].b)
          /\ \E i \in 1..Len(args[c].a) : Fails(c, i)) =>
          LET first == CHOOSE i \in 1..Len(args[c].a) :
                         Fails(c, i) /\ \A j \in 1..(i - 1) : ~Fails(c, j)
          IN /\ out[c] = PositionOutcome(c, first)
             /\ out[c].exc = "KeyError" /\ out[c].val = NoVal
             /\ Len(kl_values[c]) = first - 1
             /\ \A j \in 1..(first - 1) : kl_values[c][j] = PositionOutcome(c, j).val

\* A call in mode sum has ended in KeyError at its second position, the first
\* having been computed.
C24_Witness ==
  \E c \in Callers :
    /\ Done(c, "seq") /\ args[c].aggregate = "sum"
    /\ Len(args[c].a) = 2 /\ Len(args[c].b) = 2
    /\ Len(kl_values[c]) = 1 /\ kl_values[c][1].k = "fin"
    /\ out[c].exc = "KeyError"

\* C25: in a call to compute_sequence_kl with a mode other than mean, sum or
\* max, runs of different lengths end in the length error, never in the mode
\* error; runs of equal length produce no outcome while the loop runs, and the
\* mode error comes only once kl_values holds the divergence of every position.
C25_LengthFirstModeLast ==
  \A c \in Callers :
    (args[c].op = "seq" /\ args[c].aggregate \notin KnownModes) =>
      /\ (Len(args[c].a) # Len(args[c].b) /\ out[c] # NoOut) =>
            /\ out[c] = LengthError(args[c].a, args[c].b)
            /\ out[c].msg[1] # "Unknown aggregate method: "
      /\ (Len(args[c].a) = Len(args[c].b) /\ pc[c] # "done") => out[c] = NoOut
      /\ (Len(args[c].a) = Len(args[c].b) /\ out[c] # NoOut) =>
            /\ out[c].msg[1] = "Unknown aggregate method: "
            /\ Len(kl_values[c]) = Len(args[c].a)
            /\ \A i \in 1..Len(args[c].a) : kl_values[c][i] = PositionOutcome(c, i).val

\* The mode error has been raised after two positions were computed, with
\* different values.
C25_Witness ==
  \E c \in Callers :
    /\ Done(c, "seq") /\ args[c].aggregate \notin KnownModes
    /\ Len(args[c].a) = 2 /\ Len(args[c].b) = 2
    /\ out[c].exc = "ValueError" /\ out[c].msg[1] = "Unknown aggregate method: "
    /\ Len(kl_values[c]) = 2 /\ kl_values[c][1] # kl_values[c][2]

\* C26: a call to compute_sequence_kl on two runs of no position, in mode
\* mean, sum or max, returns a finite number, which is 0 in mode sum; it does
\* not raise and does not return nan.
C26_EmptyRunsFinite ==
  \A c \in Callers :
    (Done(c, "seq") /\ Len(args[c].a) = 0 /\ Len(args[c].b) = 0
       /\ args[c].aggregate \in KnownModes) =>
      /\ out[c].exc = "none"
      /\ out[c].val.k = "fin"
      /\ args[c].aggregate = "sum" => out[c].val = Fx(0)

\* The vector of n entries 1/n.
Uniform(n) == [i \in 1..n |-> Rat(1, n)]

\* C27: a call to compute_kl_divergence with exactly one list empty raises
\* nothing.  The empty list normalizes to the empty mapping, which reads as
\* epsilon on every token of the other list and renormalizes to the uniform
\* vector over those tokens; the value returned is the divergence of the two
\* aligned arrays, and it is not nan.
C27_OneSideEmpty ==
  \A c \in Callers :
    (Done(c, "kl") /\ (Len(args[c].p) = 0) # (Len(args[c].q) = 0)) =>
      LET other == IF Len(args[c].p) = 0 THEN args[c].q ELSE args[c].p
          n == Cardinality(TokensOf(other))
          empty == normalize_distribution(<<>>, args[c].epsilon).val
          arrays == AlignedArrays(args[c].p, args[c].q, args[c].epsilon)
          side == IF Len(args[c].p) = 0 THEN arrays[1] ELSE arrays[2]
      IN /\ out[c].exc = "none"
         /\ empty = EmptyDict
         /\ Lookup(empty, Sorted(TokensOf(other)), args[c].epsilon)
              = [i \in 1..n |-> args[c].epsilon]
         /\ side = Uniform(n)
         /\ out[c].val = entropy(arrays[1], arrays[2])
         /\ out[c].val.k \in {"fin", "inf"}
         /\ Len(args[c].q) = 0 => out[c].val.k = "fin"

\* A call with an empty first list and a second list of two tokens of unequal
\* positive masses has returned a positive finite divergence.
C27_Witness ==
  \E c \in Callers :
    /\ Done(c, "kl") /\ out[c].exc = "none"
    /\ Len(args[c].p) = 0 /\ Len(args[c].q) = 2
    /\ Cardinality(TokensOf(args[c].q)) = 2
    /\ out[c].val.k = "fin" /\ out[c].val.v > 0

\* C28: when scrape_with_fallback has returned or raised, every connection it
\* opened is closed.
C28_ConnectionClosed ==
  fb.pc = "done" => \A i \in 1..Len(db.connections) : db.connections[i] = "closed"

\* C29: when save_to_database has returned on tables that were empty, each of
\* the three tables holds as many rows as the count returned: a celebrity is
\* saved in all three or in none.
C29_AllOrNothing ==
  sv.pc = "done" =>
    /\ Len(db.sources) = sv.saved_count
    /\ Len(db.personalities) = sv.saved_count
    /\ Len(db.sociotype_labels) = sv.saved_count

\* C30: a call to scrape_celebrities or search_person made while no context is
\* active (before __enter__ or after __exit__) ends in RuntimeError, and a call
\* that reaches a method of self.browser was made inside an active context.
C30_RuntimeErrorOutsideContext ==
  pw.last.method \in {"scrape_celebrities", "search_person"} =>
    /\ ~pw.last.active => pw.last.exc = "RuntimeError"
    /\ pw.last.touched => pw.last.active
====
